---- MODULE Spec2Model ----
(***************************************************************************)
(* A model of src/interfaces/PathRecorder.py: the PathRecorder that tracks, *)
(* for a batch of sampled sub-architectures of a DAG, which nodes feed each *)
(* node (the active tensor), the raw decisions (the sampling tensor) and a  *)
(* running mean of the usage of each node (global_sampling, n_samplings).   *)
(*                                                                         *)
(* Tensors are records [kind, size, data]; None is the record NoneT.  The   *)
(* entries of a tensor are integers: a decision is a vector over           *)
(* DecisionValues.  The running mean is computed over exact rationals      *)
(* <<numerator, denominator>>; float32 rounding is not modelled.            *)
(***************************************************************************)
EXTENDS Integers, Sequences, FiniteSets, TLC

VARIABLES graph, default_out, node_index, rev_node_index,
          global_sampling, n_samplings, active, sampling,
          result, recorded, n_iterations, contrib, folded, twice,
          n_updates, mean_sum, returned, snapshot, other

vars == <<graph, default_out, node_index, rev_node_index,
          global_sampling, n_samplings, active, sampling,
          result, recorded, n_iterations, contrib, folded, twice,
          n_updates, mean_sum, returned, snapshot, other>>

(***************************************************************************)
(* Bounds of the model.                                                    *)
(***************************************************************************)
\* the largest batch width of a decision
MaxB == 2
\* no statistics update is issued once n_samplings is here
MaxUpdates == 3
\* new_iteration is not called any more after this many calls that returned
MaxIters == 3
\* the caller of SpecPaths asks for paths until n_samplings is here
MaxPathCalls == 2

(***************************************************************************)
(* The inputs: graphs, node names, decisions.                              *)
(***************************************************************************)
Nodes == {"A", "B", "C"}
\* a name that is no node of the graph
UnknownNode == "Z"
NodeNames == Nodes \cup {UnknownNode}

\* the DAGs the tracker is built over, as sets of edges <<from, to>>
ChainGraph == {<<"A", "B">>, <<"B", "C">>}
TriangleGraph == {<<"A", "B">>, <<"B", "C">>, <<"A", "C">>}
JoinGraph == {<<"A", "C">>, <<"B", "C">>}
Graphs == {ChainGraph, TriangleGraph, JoinGraph}

\* graph.predecessors(node)
predecessors(g, node) == {p \in Nodes : <<p, node>> \in g}

\* graph.number_of_nodes()
n_nodes == Cardinality(Nodes)

NodeInds == 0 .. (n_nodes - 1)

\* the results nx.topological_sort may give: the orders of all the nodes in
\* which every edge goes forward
TopologicalSorts(g) ==
    {o \in [NodeInds -> Nodes] :
        /\ \A i, j \in NodeInds : i # j => o[i] # o[j]
        /\ \A i, j \in NodeInds : <<o[i], o[j]>> \in g => i < j}

\* the values of one entry of a decision: off, on, and a negative weight
DecisionValues == {-1, 0, 1}

Widths == 1 .. MaxB

\* a decision after squeeze(): a flat vector of width w (a scalar is promoted
\* to width 1), or a tensor that keeps two dimensions ("matrix")
Vector(v) == [dim |-> 1, val |-> v]
Matrix == [dim |-> 2, val |-> <<>>]
\* the 0/1 decisions of every width
BoolVectors == UNION {{Vector(v) : v \in [0 .. (w - 1) -> {0, 1}]} : w \in Widths}
\* the entries of a decision are handled one by one, so the other values of an
\* entry are tried at width 1
Vectors == BoolVectors \cup {Vector(v) : v \in [{0} -> DecisionValues]}
Decisions == Vectors \cup {Matrix}

Width(d) == Cardinality(DOMAIN d.val)

(***************************************************************************)
(* Tensors.                                                                *)
(***************************************************************************)
NoneT == [kind |-> "None", size |-> <<>>, data |-> <<>>]
\* torch.Tensor(): a tensor with no elements
EmptyT == [kind |-> "Tensor", size |-> <<0>>, data |-> <<>>]

IsNone(t) == t.kind = "None"
\* t.numel()
numel(t) == IF t.size = <<>> THEN 1
            ELSE IF Len(t.size) = 1 THEN t.size[1]
            ELSE IF Len(t.size) = 2 THEN t.size[1] * t.size[2]
            ELSE t.size[1] * t.size[2] * t.size[3]

BatchInds(b) == 0 .. (b - 1)

\* a variant of ZeroActive: the resized tensor is not zeroed and holds what the
\* memory held
ZeroActive_NoZero(b) ==
    [kind |-> "Tensor", size |-> <<n_nodes, n_nodes, b>>,
     data |-> [i \in NodeInds |-> [j \in NodeInds |-> [k \in BatchInds(b) |-> 1]]]]

\* resize_(n_nodes, n_nodes, b).zero_()
ZeroActive(b) ==
    [kind |-> "Tensor", size |-> <<n_nodes, n_nodes, b>>,
     data |-> [i \in NodeInds |-> [j \in NodeInds |-> [k \in BatchInds(b) |-> 0]]]]
\* resize_(n_nodes, b).zero_()
ZeroSampling(b) ==
    [kind |-> "Tensor", size |-> <<n_nodes, b>>,
     data |-> [i \in NodeInds |-> [k \in BatchInds(b) |-> 0]]]

(***************************************************************************)
(* Exact rationals <<num, den>> in lowest terms, den > 0.                  *)
(***************************************************************************)
Abs(x) == IF x < 0 THEN -x ELSE x

RECURSIVE GCD(_, _)
GCD(a, b) == IF b = 0 THEN a ELSE GCD(b, a % b)

Rat(num, den) ==
    LET g == GCD(Abs(num), Abs(den))
        s == IF den < 0 THEN -1 ELSE 1
    IN  IF num = 0 THEN <<0, 1>> ELSE <<(s * num) \div g, (s * den) \div g>>

RatAdd(x, y) == Rat(x[1] * y[2] + y[1] * x[2], x[2] * y[2])
RatSub(x, y) == Rat(x[1] * y[2] - y[1] * x[2], x[2] * y[2])
RatMul(x, y) == Rat(x[1] * y[1], x[2] * y[2])

RECURSIVE SumInts(_, _)
\* the sum of f[x] over the x in S
SumInts(f, S) ==
    IF S = {} THEN 0
    ELSE LET x == CHOOSE y \in S : TRUE IN f[x] + SumInts(f, S \ {x})

RECURSIVE MaxInts(_, _)
\* the largest f[x] over the x in the non-empty S
MaxInts(f, S) ==
    LET x == CHOOSE y \in S : TRUE
    IN  IF S = {x} THEN f[x]
        ELSE LET m == MaxInts(f, S \ {x}) IN IF f[x] > m THEN f[x] ELSE m

(***************************************************************************)
(* The queries.  A call yields [exc, val]; exc is "none" when it returns.  *)
(***************************************************************************)
Ok(v) == [exc |-> "none", val |-> v]
Raise(e) == [exc |-> e, val |-> <<>>]

\* self.active[self.node_index[out_node]]
get_pruned_architecture(nidx, act, out_node) ==
    IF out_node \notin DOMAIN nidx THEN Raise("KeyError")
    ELSE IF IsNone(act) THEN Raise("TypeError")
    ELSE IF numel(act) = 0 THEN Raise("IndexError")
    ELSE Ok(act.data[nidx[out_node]])

\* self.sampling
get_sampled_architectures(samp) == Ok(samp)

RECURSIVE UsedFrom(_, _, _)
\* [rev[idx] for idx, used in enumerate(arch) if used == 1], from index ind on
UsedFrom(rev, arch, ind) ==
    IF ind = n_nodes THEN <<>>
    ELSE (IF arch[ind] = 1 THEN <<rev[ind]>> ELSE <<>>) \o UsedFrom(rev, arch, ind + 1)

\* get_used_nodes(architectures): architectures is a b x n tensor, the result
\* a list of b lists of nodes
get_used_nodes(rev, architectures) ==
    [i \in 1 .. Cardinality(DOMAIN architectures) |-> UsedFrom(rev, architectures[i - 1], 0)]

\* pruned.t(): the b x n transpose of the n x b tensor
Transpose(pruned) ==
    [k \in DOMAIN pruned[0] |-> [j \in NodeInds |-> pruned[j][k]]]

\* a variant of SamplingPath: only the nodes of the pruned path are kept
SamplingPath_UsedOnly(rev, pruned, sampled, k) ==
    [node \in {rev[ind] : ind \in {j \in NodeInds : pruned[j][k] = 1}} |->
        sampled[CHOOSE ind \in NodeInds : rev[ind] = node][k]]

\* dict((self.rev_node_index[ind], elt) for ind, elt in enumerate(sampled[:, i]))
SamplingPath(rev, pruned, sampled, k) ==
    [node \in {rev[ind] : ind \in NodeInds} |->
        sampled[CHOOSE ind \in NodeInds : rev[ind] = node][k]]

\* get_graph_paths(out_node) up to its statistics update: the exception it
\* raises or the pair (real_paths, sampling_paths) it returns
get_graph_paths(nidx, rev, act, samp, out_node) ==
    LET architectures == get_pruned_architecture(nidx, act, out_node)
        pruned == architectures.val
        sampled == get_sampled_architectures(samp).val.data
        b == Cardinality(DOMAIN pruned[0])
        real_paths == [i \in 1 .. b |-> UsedFrom(rev, [j \in NodeInds |-> pruned[j][i - 1]], 0)]
        res == get_used_nodes(rev, Transpose(pruned))
        sampling_paths == [i \in 1 .. b |-> SamplingPath(rev, pruned, sampled, i - 1)]
    IN  IF architectures.exc # "none" THEN architectures
        ELSE IF real_paths # res THEN Raise("AssertionError")
        ELSE Ok(<<real_paths, sampling_paths>>)

\* a variant of get_consistence: the node's own entry is not summed
get_consistence_NoSelf(nidx, act, node) ==
    LET row == get_pruned_architecture(nidx, act, node)
    IN  IF row.exc # "none" THEN row
        ELSE Ok([k \in DOMAIN row.val[0] |->
                SumInts([j \in NodeInds \ {nidx[node]} |-> row.val[j][k]],
                        NodeInds \ {nidx[node]}) # 0])

\* self.active[self.node_index[node]].sum(0) != 0
get_consistence(nidx, act, node) ==
    LET row == get_pruned_architecture(nidx, act, node)
    IN  IF row.exc # "none" THEN row
        ELSE Ok([k \in DOMAIN row.val[0] |->
                SumInts([j \in NodeInds |-> row.val[j][k]], NodeInds) # 0])

(***************************************************************************)
(* update_global_sampling(used_nodes): used_nodes is an n_nodes x b row of *)
(* the active tensor.                                                      *)
(***************************************************************************)
\* used_nodes.mean(1).squeeze()
mean_sampling(used_nodes) ==
    [j \in NodeInds |->
        LET b == Cardinality(DOMAIN used_nodes[j])
        IN  Rat(SumInts(used_nodes[j], DOMAIN used_nodes[j]), b)]

\* a variant of IncrementalMean: the weight is taken from the count before
\* the increment
IncrementalMean_CountBefore(gs, n, m) ==
    [j \in NodeInds |-> RatAdd(gs[j], RatMul(<<1, n - 1>>, RatSub(m[j], gs[j])))]

\* global_sampling += (1 / n_samplings) * (mean_sampling - global_sampling)
IncrementalMean(gs, n, m) ==
    [j \in NodeInds |-> RatAdd(gs[j], RatMul(<<1, n>>, RatSub(m[j], gs[j])))]

\* a variant of update_global_sampling: the count is not kept
update_global_sampling_NoCount(gs, n, used_nodes) ==
    LET n1 == n + 1
        m == mean_sampling(used_nodes)
    IN  [global_sampling |-> IF IsNone(gs) THEN [kind |-> "Tensor", size |-> <<n_nodes>>, data |-> m]
                             ELSE [gs EXCEPT !.data = IncrementalMean(gs.data, n1, m)],
         n_samplings |-> n]

\* the pair (global_sampling, n_samplings) after the update
update_global_sampling(gs, n, used_nodes) ==
    LET n1 == n + 1
        m == mean_sampling(used_nodes)
    IN  [global_sampling |-> IF IsNone(gs) THEN [kind |-> "Tensor", size |-> <<n_nodes>>, data |-> m]
                             ELSE [gs EXCEPT !.data = IncrementalMean(gs.data, n1, m)],
         n_samplings |-> n1]

(***************************************************************************)
(* add_sampling(node_name, sampling)                                       *)
(***************************************************************************)
\* what a decision of width 1 or b writes into a row of width b
Broadcast(d, b) == [k \in BatchInds(b) |-> IF Width(d) = b THEN d.val[k] ELSE d.val[0]]

\* a variant of AddPredecessors: only one of the predecessors is added
AddPredecessors_OnlyFirst(incoming, act, predInds, b) ==
    [j \in NodeInds |-> [k \in BatchInds(b) |->
        incoming[j][k] + (IF predInds = {} THEN 0
                          ELSE act.data[CHOOSE p \in predInds : \A q \in predInds : p <= q][j][k])]]

\* incoming += self.active[prev], for every predecessor prev
AddPredecessors(incoming, act, predInds, b) ==
    [j \in NodeInds |-> [k \in BatchInds(b) |->
        incoming[j][k] + SumInts([p \in predInds |-> act.data[p][j][k]], predInds)]]

\* a variant of AddSelf: the decision is added to every entry of the row
AddSelf_WholeRow(incoming, node_ind, s, b) ==
    [j \in NodeInds |-> [k \in BatchInds(b) |-> incoming[j][k] + s[k]]]

\* incoming[node_ind] += sampling
AddSelf(incoming, node_ind, s, b) ==
    [j \in NodeInds |-> [k \in BatchInds(b) |->
        incoming[j][k] + (IF j = node_ind THEN s[k] ELSE 0)]]

\* incoming.view(-1, batch_size).max(0)[0]
has_inputs(incoming, b) ==
    [k \in BatchInds(b) |-> MaxInts([j \in NodeInds |-> incoming[j][k]], NodeInds)]

\* a variant of has_outputs: the inputs are not looked at
has_outputs_NoInputs(hi, s, b) ==
    [k \in BatchInds(b) |-> IF s[k] # 0 THEN 1 ELSE 0]

\* ((has_inputs * sampling) != 0).float()
has_outputs(hi, s, b) ==
    [k \in BatchInds(b) |-> IF hi[k] * s[k] # 0 THEN 1 ELSE 0]

\* a variant of MaskedRow: the mask is not applied
MaskedRow_NoMask(incoming, mask, b) ==
    [j \in NodeInds |-> [k \in BatchInds(b) |-> IF incoming[j][k] # 0 THEN 1 ELSE 0]]

\* incoming *= sampling_mask; (incoming != 0).float()
MaskedRow(incoming, mask, b) ==
    [j \in NodeInds |-> [k \in BatchInds(b) |->
        IF incoming[j][k] * mask[k] # 0 THEN 1 ELSE 0]]

\* raise RuntimeError("'new_iteration' should be called before each evaluation.")
NotInitialized == "RuntimeError: 'new_iteration' should be called before each evaluation."
\* raise ValueError("'sampling' param should be of dimension one.")
InvalidShape == "ValueError: 'sampling' param should be of dimension one."
\* self.sampling[node_ind] = sampling, with a value that cannot be broadcast
SizeMismatch == "RuntimeError: The expanded size of the tensor must match the existing size"

\* a variant of EntryChecks: the shape is checked before the tensors
EntryChecks_ShapeFirst(act, d) ==
    IF d.dim # 1 THEN InvalidShape
    ELSE IF IsNone(act) THEN NotInitialized
    ELSE "none"

\* the checks add_sampling starts with: the exception raised, or "none"
EntryChecks(act, d) ==
    IF IsNone(act) THEN NotInitialized
    ELSE IF d.dim # 1 THEN InvalidShape
    ELSE "none"

\* a variant of SizeAsserted: the assert statement is compiled away
SizeAsserted_Off(d, b) == TRUE

\* assert incoming.size() == torch.Size((self.n_nodes, batch_size))
SizeAsserted(d, b) == Width(d) = b

\* the outcome of the call: the exception it raises ("none" when it returns)
\* and the active and sampling tensors it leaves
add_sampling(g, nidx, act, samp, node_name, d) ==
    IF EntryChecks(act, d) # "none"
    THEN [exc |-> EntryChecks(act, d), active |-> act, sampling |-> samp]
    ELSE
      LET batch_size == Width(d)
          unsized == numel(act) = 0 /\ numel(samp) = 0
          act1  == IF unsized THEN ZeroActive(batch_size) ELSE act
          samp1 == IF unsized THEN ZeroSampling(batch_size) ELSE samp
          b == act1.size[3]
      IN
      IF node_name \notin DOMAIN nidx
      THEN [exc |-> "KeyError", active |-> act1, sampling |-> samp1]
      ELSE IF Width(d) # b /\ Width(d) # 1
      THEN [exc |-> SizeMismatch, active |-> act1, sampling |-> samp1]
      ELSE
        LET node_ind == nidx[node_name]
            s == Broadcast(d, b)
            samp2 == [samp1 EXCEPT !.data[node_ind] = s]
            preds == predecessors(g, node_name)
            predInds == {nidx[p] : p \in preds}
            row0 == act1.data[node_ind]
            row1 == IF preds = {} THEN AddSelf(row0, node_ind, s, b) ELSE row0
            row2 == AddPredecessors(row1, act1, predInds, b)
        IN
        IF ~SizeAsserted(d, b)
        THEN [exc |-> "AssertionError",
              active |-> [act1 EXCEPT !.data[node_ind] = row2],
              sampling |-> samp2]
        ELSE
          LET mask == has_outputs(has_inputs(row2, b), s, b)
              row3 == AddSelf(row2, node_ind, s, b)
          IN  [exc |-> "none",
               active |-> [act1 EXCEPT !.data[node_ind] = MaskedRow(row3, mask, b)],
               sampling |-> samp2]

(***************************************************************************)
(* The state.  graph, default_out, node_index, rev_node_index,             *)
(* global_sampling, n_samplings, active and sampling are the fields of the *)
(* PathRecorder.  result is the last call, the exception it raised ("none"  *)
(* when it returned) and, for add_sampling, the width of its decision (0   *)
(* for a matrix).  The others record the history the                       *)
(* properties speak of:                                                    *)
(*   recorded      the nodes whose decision add_sampling stored in the     *)
(*                 sampling tensor in this iteration                       *)
(*   n_iterations  the new_iteration calls that returned                   *)
(*   contrib       the statistics updates fed the current iteration's data *)
(*   folded        the closed iterations that were fed at least once       *)
(*   twice         some iteration was fed more than once                   *)
(*   n_updates     the update_global_sampling calls                        *)
(*   mean_sum      the sum of the mean_sampling vectors of those calls     *)
(* returned is, when the last call was a query, its node argument and, in *)
(* a tuple, the value it returned (the empty tuple after a call that       *)
(* returned None or raised).                                               *)
(* snapshot is the dictionary the last get_state returned and other is a   *)
(* second tracker built over the same graph; both are NoObject until they  *)
(* are made.  A holder of a global_sampling tensor names the tensor object *)
(* in gs_obj: objects are shared, not copied, by get_state and load_state. *)
(***************************************************************************)
None == "None"
DefaultOuts == {None} \cup Nodes

ZeroMeans == [j \in NodeInds |-> <<0, 1>>]

\* the tensors are sized: a decision of this iteration reached the resize
Sized(t) == ~IsNone(t) /\ numel(t) # 0

\* the value of a call that returned None or raised
NoValue == <<>>
Returned(arg, val) == [arg |-> arg, val |-> val]

\* no dictionary, no tracker
NoObject == [kind |-> "None"]
\* the tensor objects global_sampling can be bound to: the one the first
\* update of the tracker makes (line 41), the one the first update of the
\* second tracker makes, or None
TensorOfT == "tensor made by the tracker"
TensorOfOther == "tensor made by the other tracker"
ObjectOf(gs) == IF IsNone(gs) THEN None ELSE TensorOfT

\* holder (the dictionary or the other tracker) after the tensor object obj
\* was changed in place to gs
InPlace(holder, obj, gs) ==
    IF holder.kind # "None" /\ holder.gs_obj = obj
    THEN [holder EXCEPT !.global_sampling = gs]
    ELSE holder

\* the holders after update_global_sampling on the tracker: line 41 binds a
\* new tensor, line 43 changes the bound tensor in place
ShareUpdate(gs_after) ==
    /\ snapshot' = IF IsNone(global_sampling) THEN snapshot
                   ELSE InPlace(snapshot, TensorOfT, gs_after)
    /\ other' = IF IsNone(global_sampling) THEN other
                ELSE InPlace(other, TensorOfT, gs_after)

Init ==
    /\ graph \in Graphs
    /\ default_out \in DefaultOuts
    /\ rev_node_index \in TopologicalSorts(graph)
    /\ node_index = [node \in Nodes |-> CHOOSE i \in NodeInds : rev_node_index[i] = node]
    /\ global_sampling = NoneT
    /\ n_samplings = 0
    /\ active = NoneT
    /\ sampling = NoneT
    /\ result = [op |-> "__init__", exc |-> "none", width |-> 0]
    /\ recorded = {}
    /\ n_iterations = 0
    /\ contrib = 0
    /\ folded = 0
    /\ twice = FALSE
    /\ n_updates = 0
    /\ mean_sum = ZeroMeans
    /\ returned = Returned(None, NoValue)
    /\ snapshot = NoObject
    /\ other = NoObject

\* the history of one update_global_sampling(used_nodes)
NoteUpdate(used_nodes) ==
    /\ n_updates' = n_updates + 1
    /\ mean_sum' = [j \in NodeInds |-> RatAdd(mean_sum[j], mean_sampling(used_nodes)[j])]

\* a variant of ShouldFlush: the test of default_out is inverted
ShouldFlush_NoDefaultOut(dout, act) == dout = None /\ ~IsNone(act)

\* if self.default_out is not None and self.active is not None
ShouldFlush(dout, act) == dout # None /\ ~IsNone(act)

\* new_iteration()
new_iteration ==
    /\ n_iterations < MaxIters
    /\ n_samplings < MaxUpdates
    /\ \E flush \in {ShouldFlush(default_out, active)},
          pruned \in {get_pruned_architecture(node_index, active, default_out)} :
        IF flush /\ pruned.exc # "none"
        THEN /\ result' = [op |-> "new_iteration", exc |-> pruned.exc, width |-> 0]
             /\ returned' = Returned(None, NoValue)
             /\ UNCHANGED <<graph, default_out, node_index, rev_node_index,
                            global_sampling, n_samplings, active, sampling,
                            recorded, n_iterations, contrib, folded,
                            twice, n_updates, mean_sum, snapshot, other>>
        ELSE /\ IF flush
                THEN \E upd \in {update_global_sampling(global_sampling, n_samplings, pruned.val)} :
                        /\ global_sampling' = upd.global_sampling
                        /\ n_samplings' = upd.n_samplings
                        /\ NoteUpdate(pruned.val)
                        /\ ShareUpdate(upd.global_sampling)
                ELSE UNCHANGED <<global_sampling, n_samplings, n_updates, mean_sum,
                                 snapshot, other>>
             /\ active' = EmptyT
             /\ sampling' = EmptyT
             /\ result' = [op |-> "new_iteration", exc |-> "none", width |-> 0]
             /\ recorded' = {}
             /\ n_iterations' = n_iterations + 1
             /\ contrib' = 0
             /\ folded' = IF contrib > 0 \/ flush THEN folded + 1 ELSE folded
             /\ twice' = (twice \/ (flush /\ contrib > 0))
             /\ returned' = Returned(None, NoValue)
             /\ UNCHANGED <<graph, default_out, node_index, rev_node_index>>

\* a variant of AddSampling: the call is counted as a statistics update before
\* its checks
AddSampling_CountsCall(node_name, d) ==
    \E r \in {add_sampling(graph, node_index, active, sampling, node_name, d)} :
        /\ active' = r.active
        /\ sampling' = r.sampling
        /\ result' = [op |-> "add_sampling", exc |-> r.exc, width |-> Width(d)]
        /\ recorded' = IF r.exc \in {"none", "AssertionError"}
                       THEN recorded \cup {node_name} ELSE recorded
        /\ n_samplings' = n_samplings + 1
        /\ returned' = Returned(None, NoValue)
        /\ UNCHANGED <<graph, default_out, node_index, rev_node_index,
                       global_sampling, n_iterations, contrib, folded,
                       twice, n_updates, mean_sum, snapshot, other>>

\* add_sampling(node_name, d)
AddSampling(node_name, d) ==
    \E r \in {add_sampling(graph, node_index, active, sampling, node_name, d)} :
        /\ active' = r.active
        /\ sampling' = r.sampling
        /\ result' = [op |-> "add_sampling", exc |-> r.exc, width |-> Width(d)]
        /\ recorded' = IF r.exc \in {"none", "AssertionError"}
                       THEN recorded \cup {node_name} ELSE recorded
        /\ returned' = Returned(None, NoValue)
        /\ UNCHANGED <<graph, default_out, node_index, rev_node_index,
                       global_sampling, n_samplings, n_iterations, contrib, folded,
                       twice, n_updates, mean_sum, snapshot, other>>

\* get_graph_paths(out_node)
GetGraphPaths(out_node) ==
    /\ n_samplings < MaxUpdates
    /\ \E paths \in {get_graph_paths(node_index, rev_node_index, active, sampling, out_node)} :
        IF paths.exc # "none"
        THEN /\ result' = [op |-> "get_graph_paths", exc |-> paths.exc, width |-> 0]
             /\ returned' = Returned(out_node, NoValue)
             /\ UNCHANGED <<graph, default_out, node_index, rev_node_index,
                            global_sampling, n_samplings, active, sampling,
                            recorded, n_iterations, contrib, folded,
                            twice, n_updates, mean_sum, snapshot, other>>
        ELSE \E pruned \in {get_pruned_architecture(node_index, active, out_node)} :
             \E upd \in {update_global_sampling(global_sampling, n_samplings, pruned.val)} :
             /\ global_sampling' = upd.global_sampling
             /\ n_samplings' = upd.n_samplings
             /\ NoteUpdate(pruned.val)
             /\ ShareUpdate(upd.global_sampling)
             /\ result' = [op |-> "get_graph_paths", exc |-> "none", width |-> 0]
             /\ returned' = Returned(out_node, <<paths.val>>)
             /\ contrib' = contrib + 1
             /\ twice' = (twice \/ contrib > 0)
             /\ UNCHANGED <<graph, default_out, node_index, rev_node_index,
                            active, sampling, recorded, n_iterations, folded>>

\* a variant of ReadOnly: the tensor the read returns is cleared
ReadOnly_Clears ==
    /\ active' = IF Sized(active) THEN ZeroActive(active.size[3]) ELSE active
    /\ UNCHANGED <<graph, default_out, node_index, rev_node_index,
                   global_sampling, n_samplings, sampling,
                   recorded, n_iterations, contrib, folded, twice,
                   n_updates, mean_sum, snapshot, other>>

\* what a read leaves alone: every field of the tracker
ReadOnly ==
    UNCHANGED <<graph, default_out, node_index, rev_node_index,
                global_sampling, n_samplings, active, sampling,
                recorded, n_iterations, contrib, folded, twice,
                n_updates, mean_sum, snapshot, other>>

\* the value in returned of a call that gave r
ValueOf(r) == IF r.exc = "none" THEN <<r.val>> ELSE NoValue

\* get_pruned_architecture(out_node), a read
GetPrunedArchitecture(out_node) ==
    /\ \E r \in {get_pruned_architecture(node_index, active, out_node)} :
        /\ result' = [op |-> "get_pruned_architecture", exc |-> r.exc, width |-> 0]
        /\ returned' = Returned(out_node, ValueOf(r))
    /\ ReadOnly

\* get_sampled_architectures(), a read
GetSampledArchitectures ==
    /\ \E r \in {get_sampled_architectures(sampling)} :
        /\ result' = [op |-> "get_sampled_architectures", exc |-> r.exc, width |-> 0]
        /\ returned' = Returned(None, ValueOf(r))
    /\ ReadOnly

\* get_consistence(node), a read
GetConsistence(node) ==
    /\ \E r \in {get_consistence(node_index, active, node)} :
        /\ result' = [op |-> "get_consistence", exc |-> r.exc, width |-> 0]
        /\ returned' = Returned(node, ValueOf(r))
    /\ ReadOnly

\* update_global_sampling(used_nodes), called on its own
UpdateGlobalSampling(used_nodes) ==
    /\ n_samplings < MaxUpdates
    /\ \E upd \in {update_global_sampling(global_sampling, n_samplings, used_nodes)} :
        /\ global_sampling' = upd.global_sampling
        /\ n_samplings' = upd.n_samplings
        /\ NoteUpdate(used_nodes)
        /\ ShareUpdate(upd.global_sampling)
        /\ result' = [op |-> "update_global_sampling", exc |-> "none", width |-> 0]
        /\ returned' = Returned(None, NoValue)
        /\ UNCHANGED <<graph, default_out, node_index, rev_node_index,
                       active, sampling, recorded, n_iterations, contrib, folded,
                       twice>>

(***************************************************************************)
(* The callers.                                                            *)
(***************************************************************************)
\* the batch width of the sized active tensor
BatchWidth == active.size[3]

\* the decision producer's contract: within an iteration, a node not yet
\* recorded, all of whose predecessors are, and a flat decision of the
\* iteration's width
KeepsContract(node_name, d) ==
    /\ ~IsNone(active)
    /\ node_name \in Nodes \ recorded
    /\ predecessors(graph, node_name) \subseteq recorded
    /\ d.dim = 1
    /\ IF Sized(active) THEN Width(d) = BatchWidth ELSE TRUE

\* SpecOrdered: a tracker without a default output node and a decision
\* producer that keeps its contract, iteration after iteration
InitOrdered == Init /\ default_out = None

NextOrdered ==
    \/ new_iteration
    \/ \E node_name \in Nodes, d \in Vectors :
          KeepsContract(node_name, d) /\ AddSampling(node_name, d)

SpecOrdered == InitOrdered /\ [][NextOrdered]_vars

\* SpecRecord: a tracker without a default output node over the triangle graph
\* (a source, a node with one predecessor, a node with two) whose caller
\* records, before and within iterations, any decision for any name in any
\* order, each node at most once in an iteration
InitRecord == Init /\ default_out = None /\ graph = TriangleGraph

NextRecord ==
    \/ new_iteration
    \/ \E node_name \in NodeNames \ recorded, d \in Decisions : AddSampling(node_name, d)

SpecRecord == InitRecord /\ [][NextRecord]_vars

(***************************************************************************)
(* Properties of an iteration that keeps the decision producer's contract  *)
(* (SpecOrdered).                                                          *)
(***************************************************************************)
\* the decision recorded for node i and batch element k (0 when none was)
Decision(i, k) == sampling.data[node_index[i]][k]

\* pruned_architecture(o)[j][k]
Pruned(o, j, k) == get_pruned_architecture(node_index, active, o).val[node_index[j]][k]

\* every recorded decision of this iteration is 0 or 1
BooleanDecisions ==
    \A i \in Nodes : \A k \in BatchInds(BatchWidth) : Decision(i, k) \in {0, 1}

RECURSIVE Live(_, _)
\* node i is on for k and is a source or has a live predecessor
Live(i, k) ==
    /\ Decision(i, k) = 1
    /\ \/ predecessors(graph, i) = {}
       \/ \E p \in predecessors(graph, i) : Live(p, k)

\* the directed paths of the graph from j to o, <<o>> when j = o
Paths(j, o) ==
    {path \in UNION {[1 .. l -> Nodes] : l \in 1 .. n_nodes} :
        /\ path[1] = j
        /\ path[Len(path)] = o
        /\ \A m \in 1 .. (Len(path) - 1) : <<path[m], path[m + 1]>> \in graph}

\* o and j are live for k and j is o or reaches o through live nodes only
LiveSupport(j, o, k) ==
    /\ Live(o, k)
    /\ Live(j, k)
    /\ \/ j = o
       \/ \E path \in Paths(j, o) : \A m \in 1 .. Len(path) : Live(path[m], k)

\* C1: in an iteration that records each node once, predecessors first, with
\* 0/1 decisions of one width, pruned_architecture(o)[j][k] is 1 exactly when
\* o and j are live for k and j is o or reaches o along a path of live nodes,
\* and is 0 otherwise.
C1_PrunedIsLiveSupport ==
    (Sized(active) /\ BooleanDecisions) =>
        \A o \in Nodes, j \in Nodes : \A k \in BatchInds(BatchWidth) :
            Pruned(o, j, k) = IF LiveSupport(j, o, k) THEN 1 ELSE 0

\* the triangle A -> B -> C, A -> C, all recorded with width 2: B is off for
\* the first batch element, where C is fed by A alone
C1_Witness ==
    /\ graph = TriangleGraph
    /\ recorded = Nodes
    /\ Sized(active)
    /\ BatchWidth = 2
    /\ Decision("A", 0) = 1 /\ Decision("B", 0) = 0 /\ Decision("C", 0) = 1
    /\ Decision("A", 1) = 1 /\ Decision("B", 1) = 1 /\ Decision("C", 1) = 1
    /\ Pruned("C", "A", 0) = 1 /\ Pruned("C", "B", 0) = 0 /\ Pruned("C", "C", 0) = 1
    /\ Pruned("C", "B", 1) = 1

\* node's row of the active tensor is zero for batch element k
RowZero(node, k) == \A j \in Nodes : Pruned(node, j, k) = 0

\* C2: in an iteration that records each node once and after its
\* predecessors, a recorded node that has predecessors, all with an all-zero
\* pruned mask for k, has an all-zero pruned mask for k whatever its decision;
\* on the chain A -> B -> C with A = [0], B = [1], C = [1] the masks of B and C
\* are all zero.
C2_DownstreamPruning ==
    Sized(active) =>
        /\ \A node \in recorded : \A k \in BatchInds(BatchWidth) :
              (/\ predecessors(graph, node) # {}
               /\ \A p \in predecessors(graph, node) : RowZero(p, k))
              => RowZero(node, k)
        /\ (/\ graph = ChainGraph /\ recorded = Nodes /\ BatchWidth = 1
            /\ Decision("A", 0) = 0 /\ Decision("B", 0) = 1 /\ Decision("C", 0) = 1)
           => (RowZero("B", 0) /\ RowZero("C", 0))

\* the chain with A off and B and C on, all recorded
C2_Witness ==
    /\ graph = ChainGraph
    /\ recorded = Nodes
    /\ Sized(active)
    /\ BatchWidth = 1
    /\ Decision("A", 0) = 0 /\ Decision("B", 0) = 1 /\ Decision("C", 0) = 1
    /\ result.op = "add_sampling" /\ result.exc = "none"

\* C3: right after add_sampling(node, d) returns as the first call of an
\* iteration, for a node without predecessors, pruned_architecture(node) holds
\* 1 at [node][k] exactly when d[k] # 0, and 0 everywhere else.
C3_SourceSelfActivation ==
    \A node \in Nodes :
        (/\ result.op = "add_sampling" /\ result.exc = "none"
         /\ recorded = {node}
         /\ predecessors(graph, node) = {})
        => \A j \in Nodes : \A k \in BatchInds(BatchWidth) :
              Pruned(node, j, k) = IF j = node /\ Decision(node, k) # 0 THEN 1 ELSE 0

(***************************************************************************)
(* Properties of a caller that records anything in any order (SpecRecord). *)
(***************************************************************************)
\* the tensors are sized n x n x b and n x b for one width b, and the rows and
\* the columns of the nodes no decision was stored for in this iteration are
\* zero
SizedAndZeroed ==
    /\ BatchWidth \in Widths
    /\ active.size = <<n_nodes, n_nodes, BatchWidth>>
    /\ sampling.size = <<n_nodes, BatchWidth>>
    /\ DOMAIN active.data = NodeInds
    /\ DOMAIN sampling.data = NodeInds
    /\ \A i \in NodeInds :
          /\ DOMAIN sampling.data[i] = BatchInds(BatchWidth)
          /\ DOMAIN active.data[i] = NodeInds
          /\ \A j \in NodeInds : DOMAIN active.data[i][j] = BatchInds(BatchWidth)
    /\ \A node \in Nodes \ recorded : \A k \in BatchInds(BatchWidth) :
          /\ sampling.data[node_index[node]][k] = 0
          /\ \A j \in NodeInds : active.data[node_index[node]][j][k] = 0
          /\ \A i \in NodeInds : active.data[i][node_index[node]][k] = 0

C8_Reset ==
    /\ (result = [op |-> "new_iteration", exc |-> "none", width |-> 0])
          => (active = EmptyT /\ sampling = EmptyT)
    /\ Sized(active) => SizedAndZeroed

\* the first decision recorded after new_iteration sizes the tensors by its width
C8_FirstDecision ==
    (active = EmptyT /\ result'.op = "add_sampling" /\ result'.exc = "none")
    => (/\ active'.size = <<n_nodes, n_nodes, result'.width>>
        /\ sampling'.size = <<n_nodes, result'.width>>)

\* C8: after new_iteration the active and sampling tensors are empty; the
\* first decision recorded after it, of width b, sizes them n x n x b and
\* n x b, and every entry of a node that no decision was stored for in the new
\* iteration is 0, whatever the previous iteration left.
C8_ResetAtIterationStart == []C8_Reset /\ [][C8_FirstDecision]_vars

\* a second iteration in which one node was recorded
C8_Witness ==
    /\ n_iterations = 2
    /\ Sized(active)
    /\ Cardinality(recorded) = 1
    /\ recorded \subseteq Nodes
    /\ result.op = "add_sampling" /\ result.exc = "none"
    /\ \E node \in recorded : \E k \in BatchInds(BatchWidth) : Decision(node, k) # 0

\* C9: before new_iteration has ever returned, add_sampling raises the
\* RuntimeError of the uninitialised tracker for every name and every decision
\* and changes nothing (active, sampling and global_sampling stay None,
\* n_samplings stays 0); after a new_iteration it never raises that error.
C9_NotInitialized ==
    /\ n_iterations = 0 =>
          /\ IsNone(active) /\ IsNone(sampling) /\ IsNone(global_sampling)
          /\ n_samplings = 0
          /\ result.op = "add_sampling" => result.exc = NotInitialized
          /\ \A node_name \in NodeNames, d \in Decisions :
                add_sampling(graph, node_index, active, sampling, node_name, d)
                    = [exc |-> NotInitialized, active |-> active, sampling |-> sampling]
    /\ n_iterations >= 1 =>
          /\ ~IsNone(active)
          /\ result.op = "add_sampling" => result.exc # NotInitialized

\* add_sampling has failed on the tracker no iteration was started on
C9_Witness ==
    /\ n_iterations = 0
    /\ result.op = "add_sampling" /\ result.exc = NotInitialized

C10_Step ==
    /\ (active = EmptyT /\ result'.op = "add_sampling" /\ result'.exc = "none")
          => (Sized(active') /\ active'.size[3] = result'.width)
    /\ Sized(active) =>
          /\ result'.op # "new_iteration" =>
                (/\ Sized(active')
                 /\ active'.size = active.size
                 /\ sampling'.size = sampling.size)
          /\ (result'.op = "add_sampling" /\ result'.width # BatchWidth)
                => result'.exc # "none"

\* C10: the first decision recorded in an iteration fixes the batch width of
\* the tensors, which no later call of the iteration changes, and an
\* add_sampling of the iteration with a decision of another width raises an
\* error.
C10_BatchWidthFixed == [][C10_Step]_vars

\* a decision of width 1 was refused in an iteration of width 2
C10_Witness ==
    /\ Sized(active)
    /\ BatchWidth = 2
    /\ result = [op |-> "add_sampling", exc |-> "AssertionError", width |-> 1]

(***************************************************************************)
(* The running mean (SpecMean): update_global_sampling applied to usage    *)
(* tensors of every width.                                                 *)
(***************************************************************************)
\* n_nodes x b tensors of 0/1 entries: of every width b, one for each choice
\* of the number of ones in each row
UsageTensors ==
    UNION {{[j \in NodeInds |-> [k \in BatchInds(b) |-> IF k < ones[j] THEN 1 ELSE 0]] :
                ones \in [NodeInds -> 0 .. b]} : b \in Widths}

InitMean == Init /\ default_out = None /\ graph = ChainGraph

NextMean == \E used_nodes \in UsageTensors : UpdateGlobalSampling(used_nodes)

SpecMean == InitMean /\ [][NextMean]_vars

\* C5: after t >= 1 calls of update_global_sampling from the unset estimate
\* and the counter 0, the counter is t and the estimate of every node is the
\* sum of the per-call batch means of that node divided by t.
C5_RunningMean ==
    /\ n_samplings = n_updates
    /\ n_updates = 0 => IsNone(global_sampling)
    /\ n_updates >= 1 =>
          /\ ~IsNone(global_sampling)
          /\ \A j \in NodeInds :
                global_sampling.data[j] = RatMul(mean_sum[j], <<1, n_updates>>)

\* three updates whose means for the first node were 1/2, 0 and 0 in some order
C5_Witness ==
    /\ n_updates = 3
    /\ mean_sum[0] = <<1, 2>>
    /\ global_sampling.data[0] = <<1, 6>>

(***************************************************************************)
(* The statistics of a tracker over the chain A -> B -> C whose decision    *)
(* producer keeps its contract with 0/1 decisions: SpecStats without or    *)
(* with the default output node C, with get_graph_paths and the read;      *)
(* SpecLazy with any default output node and no get_graph_paths.           *)
(***************************************************************************)
\* the names the queries are called with
QueryNames == {"C", UnknownNode}

InitStats == Init /\ graph = ChainGraph /\ default_out \in {None, "C"}

NextStats ==
    \/ new_iteration
    \/ \E node_name \in Nodes, d \in BoolVectors :
          KeepsContract(node_name, d) /\ AddSampling(node_name, d)
    \/ \E out_node \in QueryNames : GetGraphPaths(out_node)
    \/ \E out_node \in QueryNames : GetPrunedArchitecture(out_node)

SpecStats == InitStats /\ [][NextStats]_vars

InitLazy == Init /\ graph = ChainGraph /\ default_out # None

NextLazy ==
    \/ new_iteration
    \/ \E node_name \in Nodes, d \in BoolVectors :
          KeepsContract(node_name, d) /\ AddSampling(node_name, d)

SpecLazy == InitLazy /\ [][NextLazy]_vars

\* the estimate a statistics update with the default output node's pruned
\* mask makes of the current one
FlushedEstimate ==
    update_global_sampling(global_sampling, n_samplings,
        get_pruned_architecture(node_index, active, default_out).val).global_sampling

C4_Step ==
    result'.op = "new_iteration" =>
        /\ result'.exc = "none"
        /\ active' = EmptyT
        /\ sampling' = EmptyT
        /\ IF default_out # None /\ recorded # {}
           THEN /\ n_samplings' = n_samplings + 1
                /\ global_sampling' = FlushedEstimate
           ELSE /\ n_samplings' = n_samplings
                /\ global_sampling' = global_sampling

\* C4: new_iteration returns and leaves the active and sampling tensors
\* empty; it makes one statistics update, with the default output node's pruned
\* mask, when a default output node is set and the iteration it closes
\* recorded a decision, and otherwise leaves global_sampling and n_samplings
\* as they were.
C4_NewIteration == [][C4_Step]_vars

\* C6: n_samplings is the number of closed iterations whose data was fed to
\* the running mean, and no iteration was fed more than once.
C6_CounterIsFoldedIterations == n_samplings = folded /\ ~twice

C7_State ==
    /\ n_samplings = n_updates
    /\ n_iterations = 0 => n_samplings = 0
    /\ n_iterations >= 1 => n_samplings = n_iterations - 1
    /\ n_samplings = 0 => IsNone(global_sampling)
    /\ n_samplings >= 1 =>
          \A j \in NodeInds :
              global_sampling.data[j] = RatMul(mean_sum[j], <<1, n_updates>>)

C7_Step ==
    /\ result'.op = "add_sampling" =>
          (n_samplings' = n_samplings /\ global_sampling' = global_sampling)
    /\ (result'.op = "new_iteration" /\ recorded # {}) =>
          /\ result'.exc = "none"
          /\ n_samplings' = n_samplings + 1
          /\ global_sampling' = FlushedEstimate
    /\ (result'.op = "new_iteration" /\ recorded = {}) =>
          (n_samplings' = n_samplings /\ global_sampling' = global_sampling)

\* C7: with a default output node and no get_graph_paths, the data of an
\* iteration enters global_sampling at the new_iteration that closes it and
\* not before: while the t-th iteration records its decisions n_samplings is
\* t - 1, global_sampling is None when t = 1 and is the mean over the earlier
\* iterations otherwise, and add_sampling changes neither.
C7_LazyFlush == []C7_State /\ [][C7_Step]_vars

\* the second iteration has recorded all its decisions, all on, and the
\* estimate still holds the first iteration alone, in which C was not used
C7_Witness ==
    /\ n_iterations = 2
    /\ recorded = Nodes
    /\ n_samplings = 1
    /\ default_out = "C"
    /\ \A k \in BatchInds(BatchWidth) : Pruned("C", "C", k) = 1
    /\ global_sampling.data[node_index["C"]] = <<0, 1>>

(***************************************************************************)
(* Failing calls and the statistics (SpecFail): a tracker over the chain    *)
(* with the default output node C whose caller records, before and within  *)
(* iterations, any decision for any name in any order, each node at most   *)
(* once in an iteration.  The decisions are all on, of every width, or      *)
(* two-dimensional.                                                        *)
(***************************************************************************)
OnVectors == {Vector([k \in BatchInds(w) |-> 1]) : w \in Widths}

InitFail == Init /\ graph = ChainGraph /\ default_out = "C"

NextFail ==
    \/ new_iteration
    \/ \E node_name \in NodeNames \ recorded, d \in OnVectors \cup {Matrix} :
          AddSampling(node_name, d)

SpecFail == InitFail /\ [][NextFail]_vars

\* the errors add_sampling raises
AddSamplingErrors ==
    {NotInitialized, InvalidShape, "KeyError", SizeMismatch, "AssertionError"}

C11_Step ==
    (result'.op = "add_sampling" /\ result'.exc # "none") =>
        /\ result'.exc \in AddSamplingErrors
        /\ global_sampling' = global_sampling
        /\ n_samplings' = n_samplings

\* C11: an add_sampling call that raises (not initialised, a decision of more
\* than one dimension, an unknown node, a decision of another width) leaves
\* global_sampling and n_samplings as they were before the call.
C11_FailureKeepsStatistics == [][C11_Step]_vars

\* a decision of another width was refused when the estimate held the data of
\* two iterations
C11_Witness ==
    /\ result.op = "add_sampling"
    /\ result.exc \in {SizeMismatch, "AssertionError"}
    /\ n_samplings = 2
    /\ ~IsNone(global_sampling)
    /\ \E j \in NodeInds : global_sampling.data[j] = <<1, 2>>
    /\ \E j \in NodeInds : global_sampling.data[j] = <<1, 1>>

(***************************************************************************)
(* get_graph_paths (SpecPaths): a tracker without a default output node    *)
(* over the chain A -> B -> C whose decision producer keeps its            *)
(* contract with 0/1 decisions and whose caller asks for the paths of any  *)
(* name at any time.  The batch elements of a decision are handled one by  *)
(* one, so three decisions of each width are tried.                        *)
(***************************************************************************)
\* decisions of every width: all on, all on but the first batch element, all off
PathVectors ==
    UNION {{Vector([k \in BatchInds(w) |-> IF k < z THEN 0 ELSE 1]) : z \in {0, 1, w}} :
              w \in Widths}

InitPaths == Init /\ graph = ChainGraph /\ default_out = None

NextPaths ==
    \/ new_iteration
    \/ \E node_name \in Nodes, d \in PathVectors :
          KeepsContract(node_name, d) /\ AddSampling(node_name, d)
    \/ \E out_node \in NodeNames : n_samplings < MaxPathCalls /\ GetGraphPaths(out_node)

SpecPaths == InitPaths /\ [][NextPaths]_vars

\* the last call was a get_graph_paths that returned
GraphPathsReturned == result.op = "get_graph_paths" /\ result.exc = "none"

\* path lists exactly the nodes of out_node's pruned mask for k, by rising index
ListsPruned(path, out_node, k) ==
    /\ {path[m] : m \in 1 .. Len(path)} = {j \in Nodes : Pruned(out_node, j, k) = 1}
    /\ \A m1, m2 \in 1 .. Len(path) : m1 < m2 => node_index[path[m1]] < node_index[path[m2]]

\* C12: get_graph_paths(o) returns, for every batch element k, the list of the
\* nodes j with pruned_architecture(o)[j][k] = 1 in the order of their indices
\* and a mapping of every node to its entry of the sampling tensor for k (0 for
\* a node not recorded in the iteration); on the chain with A, B and C all
\* recorded [1] it returns ([[A, B, C]], [{A: 1, B: 1, C: 1}]) for C.
C12_GraphPaths ==
    GraphPathsReturned =>
        LET real_paths == returned.val[1][1]
            sampling_paths == returned.val[1][2]
        IN  /\ Len(real_paths) = BatchWidth
            /\ DOMAIN sampling_paths = 1 .. BatchWidth
            /\ \A k \in BatchInds(BatchWidth) :
                  /\ ListsPruned(real_paths[k + 1], returned.arg, k)
                  /\ DOMAIN sampling_paths[k + 1] = Nodes
                  /\ \A node \in Nodes :
                        /\ sampling_paths[k + 1][node] = Decision(node, k)
                        /\ node \notin recorded => sampling_paths[k + 1][node] = 0
            /\ (/\ graph = ChainGraph /\ recorded = Nodes /\ BatchWidth = 1
                /\ \A node \in Nodes : Decision(node, 0) = 1
                /\ returned.arg = "C")
               => returned.val[1] = << << <<"A", "B", "C">> >>,
                                       << [node \in Nodes |-> 1] >> >>

\* the paths of C were asked on the chain after A, B and C were recorded with
\* width 2, B off for the first batch element
C12_Witness ==
    /\ GraphPathsReturned
    /\ returned.arg = "C"
    /\ recorded = Nodes
    /\ returned.val[1][1] = << <<>>, <<"A", "B", "C">> >>
    /\ returned.val[1][2][1] = [node \in Nodes |-> IF node = "B" THEN 0 ELSE 1]

C13_Step ==
    /\ (result'.op = "get_graph_paths" /\ result'.exc = "none") =>
          /\ n_samplings' = n_samplings + 1
          /\ global_sampling' =
                update_global_sampling(global_sampling, n_samplings,
                    get_pruned_architecture(node_index, active, returned'.arg).val).global_sampling
          /\ \A j \in NodeInds :
                global_sampling'.data[j] =
                    RatMul(RatAdd(mean_sum[j],
                                  mean_sampling(get_pruned_architecture(node_index, active, returned'.arg).val)[j]),
                           <<1, n_samplings + 1>>)
    /\ result'.op = "get_graph_paths" =>
          UNCHANGED <<active, sampling, node_index, rev_node_index, graph, default_out>>
    /\ (result'.op = "get_graph_paths" /\ result'.exc # "none") =>
          UNCHANGED <<global_sampling, n_samplings>>

\* C13: a get_graph_paths(o) call that returns makes one statistics update
\* with the mask pruned_architecture(o) of the iteration in progress:
\* n_samplings grows by 1 and global_sampling becomes the running mean that
\* includes the mean of that mask; the active and sampling tensors and the node
\* index are the same before and after the call.  A call that raises changes
\* none of them.
C13_GraphPathsUpdatesOnce == [][C13_Step]_vars

\* the second get_graph_paths of an iteration has moved the estimate of a node
\* to 1/2
C13_Witness ==
    /\ GraphPathsReturned
    /\ n_samplings = 2
    /\ n_iterations = 1
    /\ \E j \in NodeInds : global_sampling.data[j] = <<1, 2>>

(***************************************************************************)
(* The reads (SpecReads): a tracker without a default output node whose    *)
(* decision producer keeps its contract and whose caller reads the pruned  *)
(* mask, the sampling tensor and the consistence of any name at any time.  *)
(***************************************************************************)
InitReads == Init /\ default_out = None

NextReads ==
    \/ new_iteration
    \/ \E node_name \in Nodes, d \in Vectors :
          KeepsContract(node_name, d) /\ AddSampling(node_name, d)
    \/ \E out_node \in NodeNames : GetPrunedArchitecture(out_node)
    \/ GetSampledArchitectures
    \/ \E node \in NodeNames : GetConsistence(node)

SpecReads == InitReads /\ [][NextReads]_vars

\* C14: in an iteration that records each node once, predecessors first, with
\* 0/1 decisions, get_consistence(node) of a recorded node is true for k
\* exactly when the node is live for k, that is when its decision is on and it
\* is a source or one of its predecessors has a non-zero pruned mask for k, and
\* exactly when pruned_architecture(node)[node][k] is 1.
C14_Consistence ==
    (/\ result.op = "get_consistence" /\ result.exc = "none"
     /\ returned.arg \in recorded
     /\ BooleanDecisions)
    => \A k \in BatchInds(BatchWidth) :
          LET node == returned.arg
              consistent == returned.val[1][k]
          IN  /\ consistent = Live(node, k)
              /\ consistent =
                    (/\ Decision(node, k) = 1
                     /\ \/ predecessors(graph, node) = {}
                        \/ \E p \in predecessors(graph, node) : ~RowZero(p, k))
              /\ consistent = (Pruned(node, node, k) = 1)

\* the consistence of C was read on the join A -> C <- B with A off and B and
\* C on: C is consistent through B alone
C14_Witness ==
    /\ result.op = "get_consistence" /\ result.exc = "none"
    /\ graph = JoinGraph
    /\ returned.arg = "C"
    /\ recorded = Nodes
    /\ BatchWidth = 2
    /\ Decision("A", 0) = 0 /\ Decision("B", 0) = 1 /\ Decision("C", 0) = 1
    /\ Decision("B", 1) = 0 /\ Decision("A", 1) = 0 /\ Decision("C", 1) = 1
    /\ returned.val[1][0] = TRUE
    /\ returned.val[1][1] = FALSE

\* the operations that only read
Reads == {"get_pruned_architecture", "get_sampled_architectures", "get_consistence"}

\* what the read named op gives for arg in the current state
ReadNow(op, arg) ==
    IF op = "get_pruned_architecture" THEN get_pruned_architecture(node_index, active, arg)
    ELSE IF op = "get_sampled_architectures" THEN get_sampled_architectures(sampling)
    ELSE get_consistence(node_index, active, arg)

C16_Step ==
    /\ result'.op \in Reads =>
          /\ UNCHANGED <<active, sampling, global_sampling, n_samplings,
                         node_index, rev_node_index, graph, default_out>>
          /\ result'.exc = ReadNow(result'.op, returned'.arg).exc
          /\ returned'.val = ValueOf(ReadNow(result'.op, returned'.arg))
    /\ (result.op \in Reads /\ result'.op = result.op /\ returned'.arg = returned.arg) =>
          (result'.exc = result.exc /\ returned'.val = returned.val)

\* C16: get_pruned_architecture, get_sampled_architectures and get_consistence
\* change no field of the tracker, whether they return or raise, and what one
\* of them gives is what it gives in the state it leaves: a second call with
\* the same argument, with no new_iteration or add_sampling in between, gives
\* the same result.
C16_PureReads == [][C16_Step]_vars

\* the pruned mask of C was read when A, B and C were on
C16_Witness ==
    /\ result.op = "get_pruned_architecture" /\ result.exc = "none"
    /\ returned.arg = "C"
    /\ recorded = Nodes
    /\ \A j \in NodeInds : \A k \in BatchInds(BatchWidth) : returned.val[1][j][k] = 1
    /\ n_iterations = 2

(***************************************************************************)
(* get_state and load_state (SpecSnapshot): the tracker's statistics are   *)
(* updated, its state is exported, a second tracker is built over the same *)
(* graph, loads the exported state and has its own statistics updated.     *)
(* The state is exported once, at any time, and loaded by the second       *)
(* tracker while that is fresh.                                            *)
(* get_state puts the tracker's objects into the dictionary and load_state *)
(* binds the second tracker's fields to the dictionary's objects: no       *)
(* tensor is copied.                                                       *)
(***************************************************************************)
\* get_state(): the dictionary of the four fields; at_call keeps the values
\* the estimate and the counter had when it was made
get_state(nidx, rev, gs, n) ==
    [kind |-> "dict",
     node_index |-> nidx,
     rev_node_index |-> rev,
     global_sampling |-> gs,
     n_samplings |-> n,
     gs_obj |-> ObjectOf(gs),
     at_call |-> [global_sampling |-> gs, n_samplings |-> n]]

\* PathRecorder(graph, dout), with the index order rev
PathRecorder(dout, rev) ==
    [kind |-> "PathRecorder",
     default_out |-> dout,
     node_index |-> [node \in Nodes |-> CHOOSE i \in NodeInds : rev[i] = node],
     rev_node_index |-> rev,
     global_sampling |-> NoneT,
     n_samplings |-> 0,
     gs_obj |-> None,
     active |-> NoneT,
     sampling |-> NoneT]

\* load_state(state) on tracker: setattr for each key of the dictionary
load_state(tracker, state) ==
    [tracker EXCEPT !.node_index = state.node_index,
                    !.rev_node_index = state.rev_node_index,
                    !.global_sampling = state.global_sampling,
                    !.n_samplings = state.n_samplings,
                    !.gs_obj = state.gs_obj]

\* what the calls on the dictionary and on the second tracker leave alone:
\* every field of the tracker
TrackerUnchanged ==
    UNCHANGED <<graph, default_out, node_index, rev_node_index,
                global_sampling, n_samplings, active, sampling,
                recorded, n_iterations, contrib, folded, twice,
                n_updates, mean_sum>>

\* s = get_state()
GetState ==
    /\ snapshot' = get_state(node_index, rev_node_index, global_sampling, n_samplings)
    /\ result' = [op |-> "get_state", exc |-> "none", width |-> 0]
    /\ returned' = Returned(None, NoValue)
    /\ other' = other
    /\ TrackerUnchanged

\* other = PathRecorder(graph, dout)
Construct(dout, rev) ==
    /\ other.kind = "None"
    /\ other' = PathRecorder(dout, rev)
    /\ result' = [op |-> "other.__init__", exc |-> "none", width |-> 0]
    /\ returned' = Returned(None, NoValue)
    /\ snapshot' = snapshot
    /\ TrackerUnchanged

\* other.load_state(s)
LoadState ==
    /\ other.kind # "None"
    /\ snapshot.kind # "None"
    /\ other' = load_state(other, snapshot)
    /\ result' = [op |-> "other.load_state", exc |-> "none", width |-> 0]
    /\ returned' = Returned(None, NoValue)
    /\ snapshot' = snapshot
    /\ TrackerUnchanged

\* other.update_global_sampling(used_nodes): line 41 binds a new tensor to the
\* second tracker, line 43 changes in place the tensor it is bound to, which
\* the tracker and the dictionary may hold too
OtherUpdateGlobalSampling(used_nodes) ==
    /\ other.kind # "None"
    /\ other.n_samplings < MaxUpdates
    /\ \E upd \in {update_global_sampling(other.global_sampling, other.n_samplings, used_nodes)} :
        /\ other' = [other EXCEPT !.global_sampling = upd.global_sampling,
                                  !.n_samplings = upd.n_samplings,
                                  !.gs_obj = IF IsNone(other.global_sampling)
                                             THEN TensorOfOther ELSE other.gs_obj]
        /\ global_sampling' = IF other.gs_obj = TensorOfT
                              THEN upd.global_sampling ELSE global_sampling
        /\ snapshot' = IF other.gs_obj = TensorOfT
                       THEN InPlace(snapshot, TensorOfT, upd.global_sampling)
                       ELSE snapshot
    /\ result' = [op |-> "other.update_global_sampling", exc |-> "none", width |-> 0]
    /\ returned' = Returned(None, NoValue)
    /\ UNCHANGED <<graph, default_out, node_index, rev_node_index,
                   n_samplings, active, sampling,
                   recorded, n_iterations, contrib, folded, twice,
                   n_updates, mean_sum>>

\* n_nodes x b usage tensors of every width b in which every node is used by
\* every batch element or by none
SnapshotUsage ==
    {[j \in NodeInds |-> [k \in BatchInds(b) |-> used]] : b \in Widths, used \in {0, 1}}

InitSnapshot == Init /\ graph = ChainGraph /\ default_out = None

NextSnapshot ==
    \/ \E used_nodes \in SnapshotUsage : UpdateGlobalSampling(used_nodes)
    \/ snapshot.kind = "None" /\ GetState
    \/ \E dout \in DefaultOuts, rev \in TopologicalSorts(graph) : Construct(dout, rev)
    \/ other.kind # "None" /\ IsNone(other.global_sampling) /\ LoadState
    \/ \E used_nodes \in SnapshotUsage : OtherUpdateGlobalSampling(used_nodes)

SpecSnapshot == InitSnapshot /\ [][NextSnapshot]_vars

C15_Step ==
    /\ result'.op = "other.load_state" =>
          /\ other'.node_index = snapshot.node_index
          /\ other'.rev_node_index = snapshot.rev_node_index
          /\ other'.node_index = node_index
          /\ other'.rev_node_index = rev_node_index
          /\ other'.global_sampling = snapshot.at_call.global_sampling
          /\ other'.n_samplings = snapshot.at_call.n_samplings
          /\ other'.active = other.active
          /\ other'.sampling = other.sampling
          /\ other'.default_out = other.default_out
    /\ result'.op = "get_state" =>
          /\ snapshot'.at_call = [global_sampling |-> global_sampling,
                                  n_samplings |-> n_samplings]
          /\ UNCHANGED <<graph, default_out, node_index, rev_node_index,
                         global_sampling, n_samplings, active, sampling>>

\* C15: load_state(s) of a dictionary s made by get_state on the tracker gives
\* the second tracker the node_index, rev_node_index, global_sampling and
\* n_samplings the tracker had when s was made and leaves its active, sampling
\* and default_out as they were; get_state changes no field of the tracker.
C15_SnapshotRoundTrip == [][C15_Step]_vars

C19_Step ==
    /\ (/\ snapshot.kind # "None"
        /\ result'.op \in {"update_global_sampling", "other.update_global_sampling"})
       => (/\ snapshot'.global_sampling = snapshot.global_sampling
           /\ snapshot'.n_samplings = snapshot.n_samplings)
    /\ (other.kind # "None" /\ result'.op = "update_global_sampling")
       => other'.global_sampling = other.global_sampling
    /\ result'.op = "other.update_global_sampling"
       => global_sampling' = global_sampling

\* C19: a statistics update on the tracker after s = get_state() changes
\* neither the global_sampling nor the n_samplings held in s, and after the
\* second tracker has loaded s a statistics update on one of the two trackers
\* does not change the global_sampling of the other.
C19_SnapshotIsolation == [][C19_Step]_vars

(***************************************************************************)
(* Decisions in any order (SpecAnyOrder): a tracker without a default      *)
(* output node over the triangle A -> B -> C, A -> C whose caller records  *)
(* decisions for the nodes in any order, any number of times in an         *)
(* iteration; only the calls that return are taken: after new_iteration,   *)
(* with a flat decision of the iteration's width.                          *)
(***************************************************************************)
InitAnyOrder == Init /\ default_out = None /\ graph = TriangleGraph

\* add_sampling(node_name, d) returns
Returns(node_name, d) ==
    /\ ~IsNone(active)
    /\ Sized(active) => Width(d) = BatchWidth
    /\ add_sampling(graph, node_index, active, sampling, node_name, d).exc = "none"

\* the batch elements of a decision are handled one by one: three 0/1
\* decisions of each width and the negative decision of width 1
AnyOrderVectors == PathVectors \cup {Vector([k \in {0} |-> -1])}

NextAnyOrder ==
    \/ new_iteration
    \/ \E node_name \in Nodes, d \in AnyOrderVectors :
          Returns(node_name, d) /\ AddSampling(node_name, d)

SpecAnyOrder == InitAnyOrder /\ [][NextAnyOrder]_vars

\* no entry of the sampling tensor is negative
NonNegativeDecisions ==
    \A i \in Nodes : \A k \in BatchInds(BatchWidth) : Decision(i, k) >= 0

\* C17: in the states reached through returning calls, whatever the order of
\* the decisions, while no recorded decision is negative: active[i][j][k] = 1
\* implies active[i][i][k] = 1 and sampling[i][k] # 0.
C17_Diagonal ==
    (Sized(active) /\ NonNegativeDecisions) =>
        \A i \in Nodes, j \in Nodes : \A k \in BatchInds(BatchWidth) :
            Pruned(i, j, k) # 0 => (Pruned(i, i, k) = 1 /\ Decision(i, k) # 0)

\* C was recorded after A and before its other predecessor B, which has no
\* decision yet: the row of C holds A and C
C17_Witness ==
    /\ Sized(active)
    /\ BatchWidth = 2
    /\ NonNegativeDecisions
    /\ result.op = "add_sampling" /\ result.exc = "none"
    /\ recorded = {"A", "C"}
    /\ Pruned("C", "A", 0) = 1 /\ Pruned("C", "B", 0) = 0 /\ Pruned("C", "C", 0) = 1
    /\ Pruned("C", "A", 1) = 1 /\ Pruned("C", "C", 1) = 1

\* j is not i and there is a directed path from j to i
ProperAncestor(j, i) == j # i /\ Paths(j, i) # {}

\* C20: after any returning new_iteration and add_sampling calls, decisions
\* out of topological order, repeated and negative ones included,
\* active[i][j][k] = 1 implies that j is i or a proper ancestor of i.
C20_AncestorOnly ==
    Sized(active) =>
        \A i \in Nodes, j \in Nodes : \A k \in BatchInds(BatchWidth) :
            Pruned(i, j, k) # 0 => (j = i \/ ProperAncestor(j, i))

\* every node was recorded with a negative decision: B holds A and itself, C
\* holds all three, A holds nothing
C20_Witness ==
    /\ Sized(active)
    /\ result.op = "add_sampling" /\ result.exc = "none"
    /\ recorded = Nodes
    /\ \A i \in Nodes : Decision(i, 0) = -1
    /\ Pruned("C", "A", 0) = 1 /\ Pruned("C", "B", 0) = 1 /\ Pruned("C", "C", 0) = 1
    /\ Pruned("B", "A", 0) = 1 /\ Pruned("B", "B", 0) = 1 /\ Pruned("B", "C", 0) = 0

(***************************************************************************)
(* Recording again (SpecRerecord): a tracker without a default output node *)
(* over the chain A -> B -> C whose caller records the decisions of an     *)
(* iteration in passes: each pass records every node once, predecessors    *)
(* before successors, and a further pass may follow without a              *)
(* new_iteration in between.  recorded holds the nodes of the current      *)
(* pass.                                                                   *)
(***************************************************************************)
InitRerecord == Init /\ graph = ChainGraph /\ default_out = None

\* the caller starts the next pass over the nodes of the same iteration: no
\* call is made, the tensors stay as the last pass left them
StartPass ==
    /\ recorded = Nodes
    /\ recorded' = {}
    /\ UNCHANGED <<graph, default_out, node_index, rev_node_index,
                   global_sampling, n_samplings, active, sampling, result,
                   n_iterations, contrib, folded, twice, n_updates, mean_sum,
                   returned, snapshot, other>>

NextRerecord ==
    \/ new_iteration
    \/ \E node_name \in Nodes, d \in PathVectors :
          KeepsContract(node_name, d) /\ AddSampling(node_name, d)
    \/ StartPass

SpecRerecord == InitRerecord /\ [][NextRerecord]_vars

\* the decision of node i stored in the sampling tensor samp
DecisionIn(samp, i) == Vector(samp.data[node_index[i]])

\* the active tensor after add_sampling was called, from the tensors act and
\* samp on, for the nodes outside done, predecessors before successors, with
\* the decisions held in final
RECURSIVE RecordAll(_, _, _, _)
RecordAll(act, samp, done, final) ==
    IF done = Nodes THEN act
    ELSE LET node_name == CHOOSE n \in Nodes \ done : predecessors(graph, n) \subseteq done
             r == add_sampling(graph, node_index, act, samp, node_name,
                               DecisionIn(final, node_name))
         IN  RecordAll(r.active, r.sampling, done \cup {node_name}, final)

\* the active tensor of a fresh iteration that records the decisions in final
FreshActive(final) == RecordAll(EmptyT, EmptyT, {}, final)

\* C18: at the end of every pass of an iteration the active tensor is the one
\* a fresh iteration produces from the decisions the sampling tensor holds.
C18_LastWriteWins ==
    (Sized(active) /\ recorded = Nodes) => active = FreshActive(sampling)

====
